---------------------------- MODULE Spec2Model ----------------------------
(***************************************************************************)
(* Model of the /fetch handler of the HLS reverse proxy (src/main.rs).     *)
(*                                                                         *)
(* Text is modelled by TLA+ strings, read character by character with      *)
(* SubSeq, so that the string operations of the handler (starts_with,      *)
(* find, replace, lines, join, percent-encoding, URL resolution) are       *)
(* computed here the way the Rust code computes them.                      *)
(***************************************************************************)
EXTENDS Naturals, Sequences, FiniteSets, TLC

(***************************************************************************)
(* Option<T>: None is the empty sequence, Some(x) a one-element sequence.  *)
(***************************************************************************)
None == <<>>
Some(x) == <<x>>
IsSome(o) == o # <<>>
Unwrap(o) == o[1]
UnwrapOr(o, d) == IF o = <<>> THEN d ELSE o[1]

(***************************************************************************)
(* str primitives of the Rust standard library.                            *)
(***************************************************************************)
At(s, i) == SubSeq(s, i, i)

StartsWith(s, p) == Len(p) <= Len(s) /\ SubSeq(s, 1, Len(p)) = p

EndsWith(s, p) == Len(p) <= Len(s) /\ SubSeq(s, Len(s) - Len(p) + 1, Len(s)) = p

MatchAt(s, p, i) == i + Len(p) - 1 <= Len(s) /\ SubSeq(s, i, i + Len(p) - 1) = p

\* str::find from position i on: the first index (1-based) at which p occurs,
\* 0 when it does not occur (Rust's None).
RECURSIVE FindFrom(_, _, _)
FindFrom(s, p, i) ==
    IF i + Len(p) - 1 > Len(s) THEN 0
    ELSE IF MatchAt(s, p, i) THEN i
    ELSE FindFrom(s, p, i + 1)

Find(s, p) == FindFrom(s, p, 1)

Contains(s, p) == Find(s, p) # 0

\* The part of s from index i to its end.
Suffix(s, i) == SubSeq(s, i, Len(s))

\* str::replace: every non-overlapping match of `from`, left to right, is
\* replaced by `to`; an empty `from` matches at every character boundary,
\* the two ends included.
RECURSIVE ReplaceFrom(_, _, _, _)
ReplaceFrom(s, from, to, i) ==
    IF from = ""
      THEN IF i > Len(s) THEN to
           ELSE to \o At(s, i) \o ReplaceFrom(s, from, to, i + 1)
      ELSE IF i > Len(s) THEN ""
           ELSE IF MatchAt(s, from, i)
                  THEN to \o ReplaceFrom(s, from, to, i + Len(from))
                  ELSE At(s, i) \o ReplaceFrom(s, from, to, i + 1)

Replace(s, from, to) == ReplaceFrom(s, from, to, 1)

\* char::is_whitespace on the characters of the model.
WhiteSpace == {" ", "\t", "\n", "\r", "\f"}

\* str::trim().is_empty()
TrimIsEmpty(s) == \A i \in 1..Len(s) : At(s, i) \in WhiteSpace

\* str::lines(): split_inclusive('\n'), then from each piece strip one
\* trailing "\n" and, only if that was stripped, one trailing "\r".  The
\* empty text has no line; a final terminator opens no further line.
StripLineEnd(piece) ==
    IF EndsWith(piece, "\r\n") THEN SubSeq(piece, 1, Len(piece) - 2)
    ELSE IF EndsWith(piece, "\n") THEN SubSeq(piece, 1, Len(piece) - 1)
    ELSE piece

RECURSIVE Lines(_)
Lines(text) ==
    IF text = "" THEN <<>>
    ELSE LET nl == Find(text, "\n") IN
         IF nl = 0 THEN <<StripLineEnd(text)>>
         ELSE <<StripLineEnd(SubSeq(text, 1, nl))>> \o Lines(Suffix(text, nl + 1))

\* [String]::join(sep)
RECURSIVE JoinWith(_, _)
JoinWith(ss, sep) ==
    IF ss = <<>> THEN ""
    ELSE IF Len(ss) = 1 THEN ss[1]
    ELSE ss[1] \o sep \o JoinWith(Tail(ss), sep)

(***************************************************************************)
(* Characters: classes, ASCII codes, case mapping and percent-encoding.    *)
(***************************************************************************)
UpperStr == "ABCDEFGHIJKLMNOPQRSTUVWXYZ"
LowerStr == "abcdefghijklmnopqrstuvwxyz"
DigitStr == "0123456789"
HexStr == "0123456789ABCDEF"

\* The printable ASCII characters in code order: U+0020..U+005F and
\* U+0061..U+007E (U+0060 cannot be written in a TLA+ string and is not a
\* character of the model).
AsciiLowStr == " !\"#$%&'()*+,-./0123456789:;<=>?@ABCDEFGHIJKLMNOPQRSTUVWXYZ[\\]^_"
AsciiHighStr == "abcdefghijklmnopqrstuvwxyz{|}~"

CharsOf(s) == {At(s, i) : i \in 1..Len(s)}

UpperChars == CharsOf(UpperStr)
LowerChars == CharsOf(LowerStr)
AlphaChars == UpperChars \cup LowerChars
DigitChars == CharsOf(DigitStr)
AlnumChars == AlphaChars \cup DigitChars

\* char::to_ascii_lowercase
LowerChar(c) == IF c \in UpperChars THEN At(LowerStr, Find(UpperStr, c)) ELSE c

RECURSIVE ToLower(_)
ToLower(s) == IF s = "" THEN "" ELSE LowerChar(At(s, 1)) \o ToLower(Suffix(s, 2))

\* The code of a character (tab, line feed and carriage return besides the
\* printable range).
CharCode(c) ==
    CASE c = "\t" -> 9
      [] c = "\n" -> 10
      [] c = "\r" -> 13
      [] Contains(AsciiLowStr, c) -> 31 + Find(AsciiLowStr, c)
      [] OTHER -> 96 + Find(AsciiHighStr, c)

\* "%XX", upper-case hexadecimal, as percent_encoding and urlencoding write it.
PctCode(c) ==
    "%" \o At(HexStr, (CharCode(c) \div 16) + 1) \o At(HexStr, (CharCode(c) % 16) + 1)

\* percent_encoding::utf8_percent_encode(s, set)
RECURSIVE EncodeSet(_, _)
EncodeSet(s, set) ==
    IF s = "" THEN ""
    ELSE (IF At(s, 1) \in set THEN PctCode(At(s, 1)) ELSE At(s, 1))
         \o EncodeSet(Suffix(s, 2), set)

\* urlencoding::encode: every byte but the unreserved ones (ASCII letters and
\* digits, '-', '_', '.', '~') becomes %XX.
Unreserved == AlnumChars \cup {"-", "_", ".", "~"}

RECURSIVE UrlEncode(_)
UrlEncode(s) ==
    IF s = "" THEN ""
    ELSE (IF At(s, 1) \in Unreserved THEN At(s, 1) ELSE PctCode(At(s, 1)))
         \o UrlEncode(Suffix(s, 2))

\* Decimal numbers, for ports.
RECURSIVE StrToNat(_)
StrToNat(s) ==
    IF s = "" THEN 0
    ELSE 10 * StrToNat(SubSeq(s, 1, Len(s) - 1)) + (Find(DigitStr, At(s, Len(s))) - 1)

RECURSIVE NatToStr(_)
NatToStr(n) ==
    IF n < 10 THEN At(DigitStr, n + 1)
    ELSE NatToStr(n \div 10) \o At(DigitStr, (n % 10) + 1)

(***************************************************************************)
(* url::Url, on the URLs of the model: special-scheme URLs                  *)
(* (scheme://host[:port]/path[?query][#fragment], host a domain or a        *)
(* dotted IPv4 address) and non-special URLs with an opaque path            *)
(* (scheme:opaque).  A parse result is a record; .ok tells Ok from Err.     *)
(* Inputs outside this grammar (userinfo, IPv6, file:, backslashes, a       *)
(* non-special scheme followed by '/') give Unsupported, which no input of  *)
(* the model produces (see InputsSupported).                                *)
(***************************************************************************)
ParseError(e) == [ok |-> FALSE, error |-> e]
Unsupported == [ok |-> FALSE, error |-> "unsupported"]

SpecialSchemes == {"http", "https", "ws", "wss", "ftp"}

DefaultPort(scheme) ==
    CASE scheme \in {"http", "ws"} -> 80
      [] scheme \in {"https", "wss"} -> 443
      [] OTHER -> 21

\* Percent-encode sets of the parser (path, query, special-query, fragment),
\* without U+0060.
FragmentSet == {" ", "\"", "<", ">"}
PathSet == FragmentSet \cup {"#", "?", "{", "}"}
QuerySet == {" ", "\"", "#", "<", ">"}
SpecialQuerySet == QuerySet \cup {"'"}

\* Input::new: leading and trailing C0 controls and spaces are trimmed, and
\* tab, line feed and carriage return are skipped wherever they stand.
C0OrSpace == {" ", "\t", "\n", "\r"}
TabOrNewline == {"\t", "\n", "\r"}

RECURSIVE TrimStart(_)
TrimStart(s) ==
    IF s # "" /\ At(s, 1) \in C0OrSpace THEN TrimStart(Suffix(s, 2)) ELSE s

RECURSIVE TrimEnd(_)
TrimEnd(s) ==
    IF s # "" /\ At(s, Len(s)) \in C0OrSpace THEN TrimEnd(SubSeq(s, 1, Len(s) - 1)) ELSE s

RECURSIVE SkipTabNewline(_)
SkipTabNewline(s) ==
    IF s = "" THEN ""
    ELSE (IF At(s, 1) \in TabOrNewline THEN "" ELSE At(s, 1)) \o SkipTabNewline(Suffix(s, 2))

UrlInput(raw) == SkipTabNewline(TrimEnd(TrimStart(raw)))

\* The first index from i on whose character is in cs; Len(s) + 1 if none.
RECURSIVE FirstOf(_, _, _)
FirstOf(s, cs, i) ==
    IF i > Len(s) THEN Len(s) + 1
    ELSE IF At(s, i) \in cs THEN i
    ELSE FirstOf(s, cs, i + 1)

\* Parser::parse_scheme: the index of the ':' ending a scheme, 0 if the input
\* does not start with one.
SchemeChars == AlnumChars \cup {"+", "-", "."}

SchemeEnd(s) ==
    LET k == Find(s, ":") IN
    IF k >= 2 /\ At(s, 1) \in AlphaChars /\ (\A i \in 2..(k - 1) : At(s, i) \in SchemeChars)
      THEN k ELSE 0

\* The number of leading '/'.
RECURSIVE LeadingSlashes(_)
LeadingSlashes(s) == IF StartsWith(s, "/") THEN 1 + LeadingSlashes(Suffix(s, 2)) ELSE 0

\* Host::parse for a special scheme.
RECURSIVE Labels(_)
Labels(h) ==
    LET d == Find(h, ".") IN
    IF d = 0 THEN <<h>> ELSE <<SubSeq(h, 1, d - 1)>> \o Labels(Suffix(h, d + 1))

IsNumber(l) == l # "" /\ \A i \in 1..Len(l) : At(l, i) \in DigitChars

LabelOk(l) ==
    /\ l # ""
    /\ \A i \in 1..Len(l) : At(l, i) \in AlnumChars \cup {"-"}
    /\ At(l, 1) # "-" /\ At(l, Len(l)) # "-"

ParseHost(h) ==
    LET low == ToLower(h)
        ls == Labels(low)
    IN  IF h = "" THEN ParseError("EmptyHost")
        ELSE IF \E i \in 1..Len(h) : At(h, i) = " " THEN ParseError("InvalidDomainCharacter")
        ELSE IF \E i \in 1..Len(ls) : ~LabelOk(ls[i]) THEN Unsupported
        ELSE IF IsNumber(ls[Len(ls)])
          THEN IF /\ Len(ls) = 4
                  /\ \A i \in 1..4 : /\ IsNumber(ls[i])
                                     /\ Len(ls[i]) <= 3
                                     /\ (Len(ls[i]) > 1 => At(ls[i], 1) # "0")
                                     /\ StrToNat(ls[i]) <= 255
                 THEN [ok |-> TRUE, kind |-> "ipv4", host |-> low]
                 ELSE Unsupported
          ELSE [ok |-> TRUE, kind |-> "domain", host |-> low]

\* Parser::parse_port: digits only, at most 65535 (a u16); the scheme's default
\* port is dropped.
ParsePort(scheme, p) ==
    IF p = "" THEN [ok |-> TRUE, port |-> None]
    ELSE IF ~IsNumber(p) THEN ParseError("InvalidPort")
    ELSE IF Len(p) > 5 THEN Unsupported
    ELSE IF StrToNat(p) > 65535 THEN ParseError("InvalidPort")
    ELSE IF StrToNat(p) = DefaultPort(scheme) THEN [ok |-> TRUE, port |-> None]
    ELSE [ok |-> TRUE, port |-> Some(NatToStr(StrToNat(p)))]

\* Parser::parse_path: the segments of `input` (which holds no '?' and no
\* '#') are appended to `segs`; ".." removes the last segment, "." adds
\* none, and either of them standing last leaves an empty last segment.
DoubleDot == {"..", ".%2e", ".%2E", "%2e.", "%2E.", "%2e%2e", "%2E%2E", "%2e%2E", "%2E%2e"}
SingleDot == {".", "%2e", "%2E"}

DropLast(segs) == IF segs = <<>> THEN <<>> ELSE SubSeq(segs, 1, Len(segs) - 1)

RECURSIVE ParsePath(_, _)
ParsePath(segs, input) ==
    LET sl == Find(input, "/")
        last == sl = 0
        buf == EncodeSet(IF last THEN input ELSE SubSeq(input, 1, sl - 1), PathSet)
        segs1 == IF buf \in DoubleDot
                   THEN IF last THEN Append(DropLast(segs), "") ELSE DropLast(segs)
                 ELSE IF buf \in SingleDot
                   THEN IF last THEN Append(segs, "") ELSE segs
                 ELSE Append(segs, buf)
    IN  IF last THEN segs1 ELSE ParsePath(segs1, Suffix(input, sl + 1))

\* Parser::parse_query_and_fragment on the rest of the input, which is empty
\* or starts with '?' or '#'.
ParseQueryAndFragment(rest, qset) ==
    LET h == FirstOf(rest, {"#"}, 1) IN
    [query |-> IF StartsWith(rest, "?")
                 THEN Some(EncodeSet(SubSeq(rest, 2, h - 1), qset)) ELSE None,
     fragment |-> IF h <= Len(rest)
                    THEN Some(EncodeSet(Suffix(rest, h + 1), FragmentSet)) ELSE None]

MkUrl(scheme, hostKind, host, port, segs, qf) ==
    [ok |-> TRUE, scheme |-> scheme, cannot_be_a_base |-> FALSE,
     hostKind |-> hostKind, host |-> host, port |-> port,
     segs |-> segs, opaque |-> "",
     query |-> qf.query, fragment |-> qf.fragment]

MkOpaqueUrl(scheme, opaque, qf) ==
    [ok |-> TRUE, scheme |-> scheme, cannot_be_a_base |-> TRUE,
     hostKind |-> "none", host |-> "", port |-> None,
     segs |-> <<>>, opaque |-> opaque,
     query |-> qf.query, fragment |-> qf.fragment]

\* Parser::after_double_slash for a special scheme: authority, then path,
\* query and fragment.
AfterDoubleSlash(scheme, input) ==
    LET aend == FirstOf(input, {"/", "?", "#"}, 1)
        auth == SubSeq(input, 1, aend - 1)
        rest == Suffix(input, aend)
        colon == Find(auth, ":")
        host == ParseHost(IF colon = 0 THEN auth ELSE SubSeq(auth, 1, colon - 1))
        port == ParsePort(scheme, IF colon = 0 THEN "" ELSE Suffix(auth, colon + 1))
        pend == FirstOf(rest, {"?", "#"}, 1)
        path == SubSeq(rest, 1, pend - 1)
    IN  IF \E i \in 1..Len(input) : At(input, i) \in {"@", "[", "]", "\\", "%"} THEN Unsupported
        ELSE IF ~host.ok THEN host
        ELSE IF ~port.ok THEN port
        ELSE MkUrl(scheme, host.kind, host.host, port.port,
                   ParsePath(<<>>, IF StartsWith(path, "/") THEN Suffix(path, 2) ELSE path),
                   ParseQueryAndFragment(Suffix(rest, pend), SpecialQuerySet))

\* Parser::parse_with_scheme without the relative case: `after` follows the
\* scheme's ':'.
WithScheme(scheme, after) ==
    IF scheme = "file" \/ (\E i \in 1..Len(after) : At(after, i) = "\\") THEN Unsupported
    ELSE IF scheme \in SpecialSchemes
      THEN AfterDoubleSlash(scheme, Suffix(after, LeadingSlashes(after) + 1))
    ELSE IF StartsWith(after, "/") THEN Unsupported
    ELSE LET pend == FirstOf(after, {"?", "#"}, 1) IN
         MkOpaqueUrl(scheme, SubSeq(after, 1, pend - 1),
                     ParseQueryAndFragment(Suffix(after, pend), QuerySet))

\* Parser::parse_relative against a special-scheme base.
ParseRelative(base, input) ==
    LET pend == FirstOf(input, {"?", "#"}, 1)
        path == SubSeq(input, 1, pend - 1)
        qf == ParseQueryAndFragment(Suffix(input, pend), SpecialQuerySet)
    IN  IF \E i \in 1..Len(input) : At(input, i) \in {"\\", "%"} THEN Unsupported
        ELSE IF input = "" THEN [base EXCEPT !.fragment = None]
        ELSE IF StartsWith(input, "?")
          THEN [base EXCEPT !.query = qf.query, !.fragment = qf.fragment]
        ELSE IF LeadingSlashes(input) >= 2 THEN AfterDoubleSlash(base.scheme, Suffix(input, 3))
        ELSE IF StartsWith(input, "/")
          THEN MkUrl(base.scheme, base.hostKind, base.host, base.port,
                     ParsePath(<<>>, Suffix(path, 2)), qf)
        ELSE MkUrl(base.scheme, base.hostKind, base.host, base.port,
                   ParsePath(DropLast(base.segs), path), qf)

\* Parser::parse_url with an optional base (None or Some(url)).
ParseWithBase(base, raw) ==
    LET s == UrlInput(raw)
        k == SchemeEnd(s)
        scheme == ToLower(SubSeq(s, 1, k - 1))
        after == Suffix(s, k + 1)
    IN  IF k # 0
          THEN IF /\ IsSome(base)
                  /\ scheme \in SpecialSchemes
                  /\ LeadingSlashes(after) < 2
                  /\ Unwrap(base).scheme = scheme
                 THEN ParseRelative(Unwrap(base), after)
                 ELSE WithScheme(scheme, after)
        ELSE IF ~IsSome(base) THEN ParseError("RelativeUrlWithoutBase")
        ELSE IF StartsWith(s, "#")
          THEN [Unwrap(base) EXCEPT !.fragment = Some(EncodeSet(Suffix(s, 2), FragmentSet))]
        ELSE IF Unwrap(base).cannot_be_a_base THEN ParseError("RelativeUrlWithCannotBeABaseBase")
        ELSE ParseRelative(Unwrap(base), s)

\* Url::parse
UrlParse(raw) == ParseWithBase(None, raw)

\* Url::join
UrlJoin(base, raw) == ParseWithBase(Some(base), raw)

\* Url::path
UrlPath(u) == IF u.cannot_be_a_base THEN u.opaque ELSE "/" \o JoinWith(u.segs, "/")

\* Url::as_str
UrlAsStr(u) ==
    u.scheme \o ":"
    \o (IF u.cannot_be_a_base THEN ""
        ELSE "//" \o u.host \o (IF IsSome(u.port) THEN ":" \o Unwrap(u.port) ELSE ""))
    \o UrlPath(u)
    \o (IF IsSome(u.query) THEN "?" \o Unwrap(u.query) ELSE "")
    \o (IF IsSome(u.fragment) THEN "#" \o Unwrap(u.fragment) ELSE "")

\* Url::domain
UrlDomain(u) == IF u.hostKind = "domain" THEN Some(u.host) ELSE None

\* Url::origin().ascii_serialization(): scheme, host and non-default port of
\* a special URL, "null" (an opaque origin) otherwise.
OriginAscii(u) ==
    IF u.scheme \in SpecialSchemes
      THEN u.scheme \o "://" \o u.host \o (IF IsSome(u.port) THEN ":" \o Unwrap(u.port) ELSE "")
      ELSE "null"

(***************************************************************************)
(* The pure steps of fetch_handler.                                        *)
(***************************************************************************)

\* reqwest::redirect::Policy::limited(5)
RedirectLimit == 5

\* HeaderValue::from_str: Some(s) unless s holds a byte that may not stand in
\* a header value (of the model's characters: line feed, carriage return).
HeaderValueFromStr(s) ==
    IF \E i \in 1..Len(s) : At(s, i) \in {"\n", "\r"} THEN None ELSE Some(s)

\* let ref_header = params.ref_.unwrap_or_else(|| parsed.origin().ascii_serialization());
RefHeader(q, p) == UnwrapOr(q.ref_, OriginAscii(p))

\* BuildHeaders with the ".ts" test made on the text of the URL, not its path.
BuildHeadersByUrlText(q, p) ==
    LET fixed == ("User-Agent" :> "Mozilla/5.0 (compatible; RustProxy/1.0)")
                 @@ ("Referer" :> UnwrapOr(HeaderValueFromStr(RefHeader(q, p)), ""))
                 @@ ("Accept" :> "*/*")
        range == IF EndsWith(q.url, ".ts") THEN ("Range" :> "bytes=0-") ELSE <<>>
        origin == IF IsSome(UrlDomain(p))
                    THEN ("Origin" :> UnwrapOr(HeaderValueFromStr("https://" \o Unwrap(UrlDomain(p))), ""))
                    ELSE <<>>
    IN  origin @@ range @@ fixed

\* The outbound header map: a function from header names to values.
BuildHeaders(q, p) ==
    LET fixed == ("User-Agent" :> "Mozilla/5.0 (compatible; RustProxy/1.0)")
                 @@ ("Referer" :> UnwrapOr(HeaderValueFromStr(RefHeader(q, p)), ""))
                 @@ ("Accept" :> "*/*")
        range == IF EndsWith(UrlPath(p), ".ts") THEN ("Range" :> "bytes=0-") ELSE <<>>
        origin == IF IsSome(UrlDomain(p))
                    THEN ("Origin" :> UnwrapOr(HeaderValueFromStr("https://" \o Unwrap(UrlDomain(p))), ""))
                    ELSE <<>>
    IN  origin @@ range @@ fixed

\* (StatusCode, String).into_response(): a plain-text response.
TextResponse(status, text) ==
    [status |-> status, content_type |-> "text/plain; charset=utf-8",
     cache_control |-> None, cdn_cache_control |-> None, body |-> text]

\* The error a non-HTTP scheme gets from reqwest before anything is sent.
BuilderError == "builder error"
TooManyRedirects == "error following redirect: too many redirects"

\* let result = client.get(parsed.clone()).headers(headers).send().await
\* against an origin behaving as `u`: Err(description) or Ok(head).
SendResult(p, u) ==
    IF p.scheme \notin {"http", "https"} THEN [ok |-> FALSE, error |-> BuilderError]
    ELSE IF IsSome(u.send_error) THEN [ok |-> FALSE, error |-> Unwrap(u.send_error)]
    ELSE IF u.redirects > RedirectLimit THEN [ok |-> FALSE, error |-> TooManyRedirects]
    ELSE [ok |-> TRUE, status |-> u.status, content_type |-> u.content_type,
          cache_control |-> u.cache_control, cdn_cache_control |-> u.cdn_cache_control]

\* let content_type = ... .unwrap_or("text/plain").to_string();
ContentType(head) == UnwrapOr(head.content_type, "text/plain")

\* The condition of both `if`s on the playlist branch.
IsPlaylist(content_type, p) ==
    Contains(content_type, "application/vnd.apple.mpegurl") \/ EndsWith(UrlPath(p), ".m3u8")

\* IsSegment without the rule on the path.
IsSegmentByTypeOnly(content_type, p) == Contains(content_type, "video/mp2t")

IsSegment(content_type, p) ==
    Contains(content_type, "video/mp2t") \/ EndsWith(UrlPath(p), ".ts")

\* (cache_control_header, cdn_cache_control_header, proxied_content_type)
ProxiedContentType(content_type, p) ==
    IF IsPlaylist(content_type, p) THEN "application/vnd.apple.mpegurl"
    ELSE IF IsSegment(content_type, p) THEN "video/mp2t"
    ELSE content_type

CacheControlHeader(head, p) ==
    IF IsPlaylist(ContentType(head), p)
      THEN UnwrapOr(head.cache_control, "public, max-age=18000, stale-while-revalidate=300")
      ELSE UnwrapOr(head.cache_control, "public, max-age=2592000, stale-while-revalidate=86400")

CdnCacheControlHeader(head, p) ==
    IF IsPlaylist(ContentType(head), p)
      THEN UnwrapOr(head.cdn_cache_control, "max-age=18000")
      ELSE UnwrapOr(head.cdn_cache_control, "max-age=2592000")

\* Proxied without the percent-encoding.
ProxiedRaw(resolved) == "/fetch?url=" \o UrlAsStr(resolved)

\* format!("/fetch?url={}", urlencoding::encode(resolved.as_str()))
Proxied(resolved) == "/fetch?url=" \o UrlEncode(UrlAsStr(resolved))

\* The closure mapped over the lines of a playlist.
RewriteKeyLine(p, line) ==
    LET start == Find(line, "URI=\"")
        key_uri_start == start + 5
        e == Find(Suffix(line, key_uri_start), "\"")
        key_uri_end == IF e # 0 THEN e - 1 + key_uri_start ELSE Len(line) + 1
        key_uri == SubSeq(line, key_uri_start, key_uri_end - 1)
        resolved == UrlJoin(p, key_uri)
    IN  IF start # 0 /\ resolved.ok
          THEN Replace(line, key_uri, Proxied(resolved))
          ELSE line

RewriteLine(p, line) ==
    IF StartsWith(line, "#EXT-X-KEY") THEN RewriteKeyLine(p, line)
    ELSE IF StartsWith(line, "#") \/ TrimIsEmpty(line) THEN line
    ELSE LET resolved == UrlJoin(p, line) IN
         IF resolved.ok THEN Proxied(resolved) ELSE line

\* text.lines().map(...).collect::<Vec<_>>()
RewriteLines(p, text) ==
    LET ls == Lines(text) IN [i \in 1..Len(ls) |-> RewriteLine(p, ls[i])]

\* res.text().await.unwrap_or_default() and res.bytes().await.unwrap_or_default()
BodyOrDefault(u) == IF IsSome(u.body_error) THEN "" ELSE u.body

\* Response::builder().status(..).header(..)x3.body(..)
BuildResponse(head, p, body) ==
    [status |-> head.status,
     content_type |-> ProxiedContentType(ContentType(head), p),
     cache_control |-> Some(CacheControlHeader(head, p)),
     cdn_cache_control |-> Some(CdnCacheControlHeader(head, p)),
     body |-> body]

\* fetch_handler as one function of the request and of what its origin does.
Handle(q, u) ==
    LET p == UrlParse(q.url)
        result == SendResult(p, u)
    IN  IF ~p.ok THEN TextResponse(400, "Invalid URL")
        ELSE IF ~result.ok THEN TextResponse(500, "Fetch failed: " \o result.error)
        ELSE IF IsPlaylist(ContentType(result), p)
          THEN BuildResponse(result, p, JoinWith(RewriteLines(p, BodyOrDefault(u)), "\n"))
        ELSE BuildResponse(result, p, BodyOrDefault(u))

\* Bounds of the model: the requests that may be in flight at once, and the
\* lines of the longest playlists.
NReq == 2
MaxLines == 3

(***************************************************************************)
(* State.  Every variable is a function of the requests in flight; a       *)
(* request's entry holds the locals of its own call of fetch_handler.      *)
(***************************************************************************)
VARIABLES
    params,     \* FetchQuery of the request: [url, ref_]
    upstream,   \* how the origin answers the request's outbound GET
    pc,         \* "start", "send" (at .send().await), "body" (at .text()/.bytes().await), "done"
    parsed,     \* Option: `parsed`
    headers,    \* Option: the header map sent with the outbound GET
    fetches,    \* outbound GETs issued for the request
    res,        \* Option: the head of `res`
    lines,      \* the collected Vec of rewritten lines
    response    \* Option: the Response returned

vars == <<params, upstream, pc, parsed, headers, fetches, res, lines, response>>

Reqs == DOMAIN pc

Params(r) == params[r]
Upstream(r) == upstream[r]
\* Parsed with `parsed` kept in one slot shared by all requests.
ParsedShared(r) == Unwrap(parsed[CHOOSE q \in Reqs : parsed[q] # None])

Parsed(r) == Unwrap(parsed[r])
Res(r) == Unwrap(res[r])

Finish(r, resp) ==
    /\ response' = [response EXCEPT ![r] = Some(resp)]
    /\ pc' = [pc EXCEPT ![r] = "done"]

\* Reject with the validation placed after the GET was issued.
RejectAfterFetch(r) ==
    /\ r \in Reqs
    /\ pc[r] = "start"
    /\ ~UrlParse(Params(r).url).ok
    /\ fetches' = [fetches EXCEPT ![r] = @ + 1]
    /\ Finish(r, TextResponse(400, "Invalid URL"))
    /\ UNCHANGED <<params, upstream, parsed, headers, res, lines>>

\* Err(_) => return (StatusCode::BAD_REQUEST, "Invalid URL")
Reject(r) ==
    /\ r \in Reqs
    /\ pc[r] = "start"
    /\ ~UrlParse(Params(r).url).ok
    /\ Finish(r, TextResponse(400, "Invalid URL"))
    /\ UNCHANGED <<params, upstream, parsed, headers, fetches, res, lines>>

\* Ok(u) => u; the headers are built and the GET is issued.
Begin(r) ==
    /\ r \in Reqs
    /\ pc[r] = "start"
    /\ LET p == UrlParse(Params(r).url) IN
         /\ p.ok
         /\ parsed' = [parsed EXCEPT ![r] = Some(p)]
         /\ headers' = [headers EXCEPT ![r] = Some(BuildHeaders(Params(r), p))]
    /\ fetches' = [fetches EXCEPT ![r] = @ + 1]
    /\ pc' = [pc EXCEPT ![r] = "send"]
    /\ UNCHANGED <<params, upstream, res, lines, response>>

\* Err(e) => (StatusCode::INTERNAL_SERVER_ERROR, format!("Fetch failed: {e}"))
SendErr(r) ==
    /\ r \in Reqs
    /\ pc[r] = "send"
    /\ LET result == SendResult(Parsed(r), Upstream(r)) IN
         /\ ~result.ok
         /\ Finish(r, TextResponse(500, "Fetch failed: " \o result.error))
    /\ UNCHANGED <<params, upstream, parsed, headers, fetches, res, lines>>

\* Ok(res) => status and headers are read; the body is awaited next.
SendOk(r) ==
    /\ r \in Reqs
    /\ pc[r] = "send"
    /\ LET result == SendResult(Parsed(r), Upstream(r)) IN
         /\ result.ok
         /\ res' = [res EXCEPT ![r] = Some(result)]
    /\ pc' = [pc EXCEPT ![r] = "body"]
    /\ UNCHANGED <<params, upstream, parsed, headers, fetches, lines, response>>

\* The playlist branch: the text is rewritten line by line and joined.
PlaylistBody(r) ==
    /\ r \in Reqs
    /\ pc[r] = "body"
    /\ IsPlaylist(ContentType(Res(r)), Parsed(r))
    /\ LET rewritten == RewriteLines(Parsed(r), BodyOrDefault(Upstream(r))) IN
         /\ lines' = [lines EXCEPT ![r] = rewritten]
         /\ Finish(r, BuildResponse(Res(r), Parsed(r), JoinWith(rewritten, "\n")))
    /\ UNCHANGED <<params, upstream, parsed, headers, fetches, res>>

\* "for binary .ts or other files": the bytes pass through.
PassthroughBody(r) ==
    /\ r \in Reqs
    /\ pc[r] = "body"
    /\ ~IsPlaylist(ContentType(Res(r)), Parsed(r))
    /\ Finish(r, BuildResponse(Res(r), Parsed(r), BodyOrDefault(Upstream(r))))
    /\ UNCHANGED <<params, upstream, parsed, headers, fetches, res, lines>>

Next ==
    \E r \in 1..NReq :
        \/ Reject(r)
        \/ Begin(r)
        \/ SendErr(r)
        \/ SendOk(r)
        \/ PlaylistBody(r)
        \/ PassthroughBody(r)

(***************************************************************************)
(* Inputs.  Requests and origins are drawn from finite sets of concrete    *)
(* texts; the three specifications below share Next and differ in the      *)
(* inputs they start from.                                                 *)
(***************************************************************************)

Query(urls, refs) == [url : urls, ref_ : refs]

PlaylistUrl == "https://host/path/playlist.m3u8"
RedirectedUrl == "https://cdn.example/v2/live/index.m3u8"

ValidUrls ==
    {PlaylistUrl,
     "https://host/path/seg1.ts",
     "https://host/path/index",
     "https://1.2.3.4/live/seg.ts?t=1",
     "HTTPS://Host:8443/A.TS",
     "data:x"}

InvalidUrls == {"not-a-url", "", "https://"}

Refs == {None, Some("https://ref.example/"), Some("a\nb")}

ContentTypes ==
    {None,
     Some("application/vnd.apple.mpegurl"),
     Some("Application/VND.Apple.MpegURL"),
     Some("audio/mpegurl; application/vnd.apple.mpegurl"),
     Some("video/mp2t"),
     Some("Video/MP2T"),
     Some("video/mp2t, application/vnd.apple.mpegurl"),
     Some("text/html; charset=utf-8")}

\* An origin that fails before any response head arrives.
FailingOrigins(errors) ==
    [send_error : {Some(e) : e \in errors}, redirects : {0}, location : {""},
     status : {0}, content_type : {None}, cache_control : {None},
     cdn_cache_control : {None}, body : {""}, body_error : {None}]

\* An origin that redirects more often than the client follows.
LoopingOrigins ==
    [send_error : {None}, redirects : {RedirectLimit + 1}, location : {RedirectedUrl},
     status : {0}, content_type : {None}, cache_control : {None},
     cdn_cache_control : {None}, body : {""}, body_error : {None}]

\* An origin that answers after `redirects` redirects with a head, and then
\* sends the body or fails while sending it.  `location` is the URL that
\* finally answers when redirects > 0, and is not read otherwise; the head of
\* an origin that never answers is not read either.
AnsweringOrigins(redirects, statuses, ctypes, ccs, cdns, bodies, body_errors) ==
    [send_error : {None}, redirects : redirects, location : {RedirectedUrl},
     status : statuses, content_type : ctypes, cache_control : ccs,
     cdn_cache_control : cdns, body : bodies, body_error : {None}]
    \cup
    [send_error : {None}, redirects : redirects, location : {RedirectedUrl},
     status : statuses, content_type : ctypes, cache_control : ccs,
     cdn_cache_control : cdns, body : {""}, body_error : {Some(e) : e \in body_errors}]

SendErrors == {"error sending request", "operation timed out"}
BodyErrors == {"error decoding response body: operation timed out"}

SampleBodies ==
    {"",
     "#EXTM3U\nseg1.ts\n",
     "#EXTM3U\r\n#EXT-X-KEY:METHOD=AES-128,URI=\"key.bin\"\r\n/abs/seg2.ts"}

\* The lines of the playlists of the rewriting specification.
ResourceLines ==
    {"seg1.ts",
     "../hi/seg 2.ts",
     "/abs/seg.ts?token=a&b=c",
     "//cdn.example/v/seg.ts",
     "https://other.example:8443/x.m3u8#t",
     "data:text/plain,hi",
     " #c",
     "//",
     "//h:p/x"}

KeyLines ==
    {"#EXT-X-KEY:METHOD=AES-128,URI=\"key.bin\"",
     "#EXT-X-KEY:METHOD=AES-128,URI=\"key.bin\",IV=0x1",
     "#EXT-X-KEY:METHOD=AES-128,URI=\"\"",
     "#EXT-X-KEY:METHOD=AES-128,URI=\"k\",KEYFORMAT=\"k\"",
     "#EXT-X-KEY:METHOD=AES-128,URI=\"//\"",
     "#EXT-X-KEY:METHOD=AES-128,URI=\"key.bin",
     "#EXT-X-KEY:METHOD=NONE"}

OtherLines == {"", " ", "#EXTM3U", "#EXTINF:10,"}

LineEnds == {"\n", "\r\n"}

\* Texts of exactly n lines of ls, each ended by a terminator.
RECURSIVE Texts(_, _)
Texts(ls, n) ==
    IF n = 0 THEN {""}
    ELSE {l \o e \o t : l \in ls, e \in LineEnds, t \in Texts(ls, n - 1)}

\* A text, with and without the terminator of its last line.
WithOpenEnd(ts) ==
    ts \cup {IF EndsWith(t, "\r\n") THEN SubSeq(t, 1, Len(t) - 2) ELSE SubSeq(t, 1, Len(t) - 1)
             : t \in ts \ {""}}

PlaylistBodies ==
    WithOpenEnd(Texts(ResourceLines \cup KeyLines \cup OtherLines, 1))
    \cup WithOpenEnd(UNION {Texts({"", "#EXTM3U", "seg1.ts"}, n) : n \in 0..MaxLines})

InitWith(R, Q, U) ==
    /\ params \in [R -> Q]
    /\ upstream \in [R -> U]
    /\ pc = [r \in R |-> "start"]
    /\ parsed = [r \in R |-> None]
    /\ headers = [r \in R |-> None]
    /\ fetches = [r \in R |-> 0]
    /\ res = [r \in R |-> None]
    /\ lines = [r \in R |-> <<>>]
    /\ response = [r \in R |-> None]

\* One request: every valid URL against every upstream head and failure, and
\* every URL and referrer against a few origins.
Init ==
    \/ InitWith({1},
                Query(ValidUrls, {None}),
                FailingOrigins(SendErrors) \cup LoopingOrigins
                \cup AnsweringOrigins({0, 1}, {200, 404}, ContentTypes,
                                      {None, Some("no-store")}, {None, Some("max-age=60")},
                                      SampleBodies, BodyErrors))
    \/ InitWith({1},
                Query(ValidUrls \cup InvalidUrls, Refs),
                FailingOrigins({"operation timed out"})
                \cup AnsweringOrigins({0}, {200}, {Some("text/html; charset=utf-8")},
                                      {None}, {None}, {"#EXTM3U\nseg1.ts\n"}, {}))

Spec == Init /\ [][Next]_vars

\* One request: a playlist URL over many playlist texts, besides a URL that
\* is no playlist and one that is rejected.
InitRewrite ==
    \/ InitWith({1},
                Query({PlaylistUrl}, {None}),
                AnsweringOrigins({0}, {200}, {Some("application/vnd.apple.mpegurl")},
                                 {None}, {None}, PlaylistBodies, {}))
    \/ InitWith({1},
                Query({"https://host/path/index", "not-a-url"}, {None}),
                FailingOrigins({"operation timed out"})
                \cup AnsweringOrigins({0}, {200},
                                      {Some("application/vnd.apple.mpegurl"), Some("text/html; charset=utf-8")},
                                      {None}, {None}, SampleBodies, {}))

SpecRewrite == InitRewrite /\ [][Next]_vars

\* NReq requests in flight at once.
InitConcurrent ==
    InitWith(1..NReq,
             Query({PlaylistUrl, "https://host/path/seg1.ts", "not-a-url"}, {None}),
             FailingOrigins({"operation timed out"})
             \cup AnsweringOrigins({0}, {200}, {None}, {None}, {None},
                                   {"#EXTM3U\nseg1.ts\n"}, BodyErrors))

SpecConcurrent == InitConcurrent /\ [][Next]_vars

\* Every URL the model parses or resolves lies in the grammar of the URL
\* operators above.
KeyUriOf(line) ==
    LET start == Find(line, "URI=\"")
        e == Find(Suffix(line, start + 5), "\"")
    IN  SubSeq(line, start + 5, IF e # 0 THEN e - 1 + start + 4 ELSE Len(line))

InputsSupported ==
    \A r \in Reqs :
        LET p == UrlParse(params[r].url)
            ls == Lines(upstream[r].body)
        IN  pc[r] = "start" =>
            /\ p # Unsupported
            /\ UrlParse(upstream[r].location) # Unsupported
            /\ p.ok => \A i \in 1..Len(ls), b \in {p, UrlParse(RedirectedUrl)} :
                          /\ UrlJoin(b, ls[i]) # Unsupported
                          /\ Contains(ls[i], "URI=\"") => UrlJoin(b, KeyUriOf(ls[i])) # Unsupported

(***************************************************************************)
(* The claims.                                                             *)
(***************************************************************************)
Done(r) == r \in Reqs /\ pc[r] = "done"
Resp(r) == Unwrap(response[r])

\* The request got a response head from its origin and has been answered.
Answered(r) == Done(r) /\ res[r] # None

\* The request was answered on the playlist branch.
AnsweredPlaylist(r) ==
    Answered(r) /\ IsPlaylist(ContentType(Unwrap(res[r])), Unwrap(parsed[r]))

\* urlencoding::decode, the inverse of the percent-encoding.
CodeChar(n) ==
    CASE n = 9 -> "\t"
      [] n = 10 -> "\n"
      [] n = 13 -> "\r"
      [] n \in 32..95 -> At(AsciiLowStr, n - 31)
      [] n \in 97..126 -> At(AsciiHighStr, n - 96)
      [] OTHER -> "?"

RECURSIVE PctDecode(_)
PctDecode(s) ==
    IF s = "" THEN ""
    ELSE IF At(s, 1) = "%" /\ Len(s) >= 3
      THEN CodeChar(16 * (Find(HexStr, At(s, 2)) - 1) + (Find(HexStr, At(s, 3)) - 1))
           \o PctDecode(Suffix(s, 4))
    ELSE At(s, 1) \o PctDecode(Suffix(s, 2))

\* C1: a request whose `url` does not parse is answered 400 and never reaches
\* the fetch step: no outbound GET is issued for it, before or after the 400.
C1_InvalidUrlNoFetch ==
    \A r \in Reqs :
        ~UrlParse(params[r].url).ok =>
            /\ fetches[r] = 0
            /\ pc[r] \in {"start", "done"}
            /\ headers[r] = None /\ res[r] = None
            /\ pc[r] = "done" => Resp(r).status = 400

C1_Witness ==
    \E r \in Reqs :
        /\ params[r].url = "not-a-url"
        /\ pc[r] = "done" /\ Resp(r).status = 400 /\ fetches[r] = 0

\* The description of the failure of the upstream fetch of a request with a
\* valid URL, at whichever stage it occurs; None if the fetch succeeds.
UpstreamFailure(p, u) ==
    IF ~SendResult(p, u).ok THEN Some(SendResult(p, u).error) ELSE u.body_error

\* C2: a request with a valid URL whose upstream fetch fails at any stage
\* (sending, following redirects, receiving the body) is answered 500 with a
\* body containing the failure description.
C2_UpstreamFailureIs500 ==
    \A r \in Reqs :
        (Done(r) /\ parsed[r] # None /\ IsSome(UpstreamFailure(Unwrap(parsed[r]), upstream[r]))) =>
            /\ Resp(r).status = 500
            /\ Contains(Resp(r).body, Unwrap(UpstreamFailure(Unwrap(parsed[r]), upstream[r])))

\* The key line with a closed quoted URI value, cut around that value.
HasQuotedUri(line) ==
    /\ Find(line, "URI=\"") # 0
    /\ Find(Suffix(line, Find(line, "URI=\"") + 5), "\"") # 0

UriValueStart(line) == Find(line, "URI=\"") + 5
UriValueLen(line) == Find(Suffix(line, UriValueStart(line)), "\"") - 1
UriValue(line) == SubSeq(line, UriValueStart(line), UriValueStart(line) + UriValueLen(line) - 1)

\* C3: in a key line whose quoted URI value resolves, only that value is
\* replaced, by the proxied reference; all other characters are unchanged.
C3_KeyLineOnlyUriReplaced ==
    \A r \in Reqs :
        AnsweredPlaylist(r) =>
            LET in == Lines(upstream[r].body) IN
            \A i \in 1..Len(in) :
                (/\ StartsWith(in[i], "#EXT-X-KEY")
                 /\ HasQuotedUri(in[i])
                 /\ UrlJoin(Unwrap(parsed[r]), UriValue(in[i])).ok) =>
                    lines[r][i] =
                        SubSeq(in[i], 1, UriValueStart(in[i]) - 1)
                        \o "/fetch?url="
                        \o UrlEncode(UrlAsStr(UrlJoin(Unwrap(parsed[r]), UriValue(in[i]))))
                        \o Suffix(in[i], UriValueStart(in[i]) + UriValueLen(in[i]))

\* C4 as stated: content-type containing video/mp2t, or path ending .ts,
\* always gives the outgoing content-type video/mp2t.
C4_SegmentTypeAlways ==
    \A r \in Reqs :
        (/\ Answered(r)
         /\ \/ Contains(UnwrapOr(upstream[r].content_type, "text/plain"), "video/mp2t")
            \/ EndsWith(UrlPath(Unwrap(parsed[r])), ".ts")) =>
            Resp(r).content_type = "video/mp2t"

\* C4, amended: content-type containing video/mp2t, or path ending .ts, gives
\* the outgoing content-type video/mp2t unless the playlist rule applies
\* (content-type containing application/vnd.apple.mpegurl, or path ending
\* .m3u8), which gives application/vnd.apple.mpegurl.
C4_SegmentTypeUnlessPlaylist ==
    \A r \in Reqs :
        Answered(r) =>
            LET ct == UnwrapOr(upstream[r].content_type, "text/plain")
                path == UrlPath(Unwrap(parsed[r]))
                segment == Contains(ct, "video/mp2t") \/ EndsWith(path, ".ts")
                playlist == Contains(ct, "application/vnd.apple.mpegurl") \/ EndsWith(path, ".m3u8")
            IN  /\ (segment /\ ~playlist) => Resp(r).content_type = "video/mp2t"
                /\ (segment /\ playlist) => Resp(r).content_type = "application/vnd.apple.mpegurl"

C4_Witness ==
    \E r \in Reqs :
        /\ Answered(r)
        /\ params[r].url = "https://host/path/seg1.ts"
        /\ upstream[r].content_type = Some("text/html; charset=utf-8")
        /\ Resp(r).content_type = "video/mp2t"

\* C5: the rewritten body has as many lines as the manifest, and its line i
\* is the rewrite of the manifest's line i.
C5_LineCountPreserved ==
    \A r \in Reqs :
        AnsweredPlaylist(r) =>
            LET in == Lines(upstream[r].body)
                out == Lines(Resp(r).body)
            IN  /\ Len(out) = Len(in)
                /\ \A i \in 1..Len(in) : out[i] = RewriteLine(Unwrap(parsed[r]), in[i])

\* Characters that may not stand unescaped in a query value.
QueryUnsafe == {":", "/", "?", "&", "=", "#", " ", "\""}

\* C6: a non-blank line not starting with '#' that resolves becomes
\* "/fetch?url=" followed by the resolved URL percent-encoded as one query
\* value; one that does not resolve is left as it is.
C6_ResourceLineProxied ==
    \A r \in Reqs :
        AnsweredPlaylist(r) =>
            LET in == Lines(upstream[r].body) IN
            /\ Len(lines[r]) = Len(in)
            /\ \A i \in 1..Len(in) :
                 (~TrimIsEmpty(in[i]) /\ ~StartsWith(in[i], "#")) =>
                    LET resolved == UrlJoin(UrlParse(params[r].url), in[i])
                        out == lines[r][i]
                        value == Suffix(out, 12)
                    IN  IF resolved.ok
                          THEN /\ SubSeq(out, 1, 11) = "/fetch?url="
                               /\ \A k \in 1..Len(value) : At(value, k) \notin QueryUnsafe
                               /\ PctDecode(value) = UrlAsStr(resolved)
                          ELSE out = in[i]
            /\ (params[r].url = "https://host/path/playlist.m3u8" /\ in = <<"seg1.ts">>) =>
                    lines[r] = <<"/fetch?url=https%3A%2F%2Fhost%2Fpath%2Fseg1.ts">>

C6_Witness ==
    \E r \in Reqs :
        /\ AnsweredPlaylist(r)
        /\ upstream[r].body = "../hi/seg 2.ts\r\n"
        /\ lines[r] = <<"/fetch?url=https%3A%2F%2Fhost%2Fhi%2Fseg%25202.ts">>

\* C7: the outbound headers hold User-Agent, Referer and Accept; Range
\* (bytes=0-) iff the path ends in .ts; Origin iff the URL has a domain.
C7_OutboundHeaders ==
    \A r \in Reqs :
        headers[r] # None =>
            LET h == Unwrap(headers[r])
                p == UrlParse(params[r].url)
            IN  /\ {"User-Agent", "Referer", "Accept"} \subseteq DOMAIN h
                /\ DOMAIN h \subseteq {"User-Agent", "Referer", "Accept", "Range", "Origin"}
                /\ "Range" \in DOMAIN h <=> EndsWith(UrlPath(p), ".ts")
                /\ "Range" \in DOMAIN h => h["Range"] = "bytes=0-"
                /\ "Origin" \in DOMAIN h <=> p.hostKind = "domain"

C7_Witness ==
    \E r \in Reqs :
        /\ params[r].url = "https://1.2.3.4/live/seg.ts?t=1"
        /\ headers[r] # None
        /\ DOMAIN Unwrap(headers[r]) = {"User-Agent", "Referer", "Accept", "Range"}

\* C8: the content-type is matched without regard to letter case: containing
\* application/vnd.apple.mpegurl in any case makes the response a playlist
\* (rewritten body, that content-type, playlist cache defaults); containing
\* video/mp2t in any case, the playlist rule not matching, makes it a segment.
C8_CaseInsensitiveClassification ==
    \A r \in Reqs :
        Answered(r) =>
            LET ct == ToLower(UnwrapOr(upstream[r].content_type, "text/plain"))
                p == Unwrap(parsed[r])
                playlist == Contains(ct, "application/vnd.apple.mpegurl") \/ EndsWith(UrlPath(p), ".m3u8")
            IN  /\ playlist =>
                    /\ Resp(r).content_type = "application/vnd.apple.mpegurl"
                    /\ Resp(r).body = JoinWith(RewriteLines(p, BodyOrDefault(upstream[r])), "\n")
                    /\ upstream[r].cache_control = None =>
                          Resp(r).cache_control = Some("public, max-age=18000, stale-while-revalidate=300")
                    /\ upstream[r].cdn_cache_control = None =>
                          Resp(r).cdn_cache_control = Some("max-age=18000")
                /\ (~playlist /\ Contains(ct, "video/mp2t")) => Resp(r).content_type = "video/mp2t"

\* The URL that answered: the redirect target if redirects were followed.
FinalUrl(p, u) == IF u.redirects > 0 THEN UrlParse(u.location) ELSE p

\* C9: the references of a playlist are resolved against the final URL of the
\* fetch: the redirect target after redirects, the target URL otherwise.
C9_BaseIsFinalUrl ==
    \A r \in Reqs :
        AnsweredPlaylist(r) =>
            lines[r] = RewriteLines(FinalUrl(Unwrap(parsed[r]), upstream[r]), BodyOrDefault(upstream[r]))

\* C10: under every interleaving, what a request holds and what it is
\* answered is a function of its own parameters and its own upstream response.
C10_RequestsIndependent ==
    \A r \in Reqs :
        LET p == UrlParse(params[r].url)
            begun == p.ok /\ pc[r] # "start"
            result == SendResult(p, upstream[r])
        IN  /\ parsed[r] = IF begun THEN Some(p) ELSE None
            /\ headers[r] = IF begun THEN Some(BuildHeaders(params[r], p)) ELSE None
            /\ fetches[r] = IF begun THEN 1 ELSE 0
            /\ res[r] = IF begun /\ pc[r] \in {"body", "done"} /\ result.ok THEN Some(result) ELSE None
            /\ response[r] = IF pc[r] = "done" THEN Some(Handle(params[r], upstream[r])) ELSE None

C10_Witness ==
    \E r, q \in Reqs :
        /\ r # q
        /\ pc[q] = "send" /\ IsSome(upstream[q].send_error)
        /\ params[r].url = "https://host/path/playlist.m3u8"
        /\ pc[r] = "done" /\ Resp(r).status = 200
        /\ Resp(r).body = "#EXTM3U\n/fetch?url=https%3A%2F%2Fhost%2Fpath%2Fseg1.ts"

=============================================================================
